---- MODULE Spec2Model ----
(***************************************************************************)
(* Model of app.py: the price-table loader (read_prices), the image        *)
(* annotator (add_price_with_centered_text), the memoized process_image    *)
(* and the Streamlit script that is re-run on every user interaction.      *)
(*                                                                         *)
(* Text is modelled as sequences of one-character strings wherever the     *)
(* code inspects characters (lower(), splitext(), endswith()).  The        *)
(* Cyrillic column names and labels of the source are transliterated:      *)
(*   "Назва" -> "Nazva", "Ліжечко" -> "Lizhechko", "Мятник" -> "Myatnyk",  *)
(*   "Шухляда" -> "Shukhlyada", "З маятником" -> "Z mayatnykom",           *)
(*   "З шухлядою" -> "Z shukhlyadoyu", "грн" -> "hrn".                     *)
(***************************************************************************)
EXTENDS Integers, Sequences, FiniteSets, TLC

(***************************************************************************)
(* Bounds of the model.                                                    *)
(***************************************************************************)
\* longest spreadsheet (number of data rows) given to read_prices
MaxRows == 3
\* number of user interactions explored in one session
MaxRuns == 3

(***************************************************************************)
(* Strings.                                                                *)
(***************************************************************************)
\* str.lower() on one character (the letters the model's names use)
LowerChar(c) ==
  CASE c = "A" -> "a"
    [] c = "B" -> "b"
    [] c = "C" -> "c"
    [] c = "G" -> "g"
    [] c = "J" -> "j"
    [] c = "N" -> "n"
    [] c = "P" -> "p"
    [] OTHER -> c

\* str.lower(): character by character, nothing trimmed
Lower(s) == [i \in 1..Len(s) |-> LowerChar(s[i])]

\* str.endswith(suffix)
EndsWith(s, suffix) ==
  /\ Len(s) >= Len(suffix)
  /\ SubSeq(s, Len(s) - Len(suffix) + 1, Len(s)) = suffix

\* os.path.splitext(p)[0] for a bare file name: cut at the last dot, unless
\* only dots precede it
SplitextStem(p) ==
  LET dots == {i \in 1..Len(p) : p[i] = "."}
  IN  IF dots = {} THEN p
      ELSE LET dotIndex == CHOOSE i \in dots : \A j \in dots : j <= i
           IN  IF \E k \in 1..(dotIndex - 1) : p[k] # "."
               THEN SubSeq(p, 1, dotIndex - 1)
               ELSE p

\* the join key without case folding
FileKeyNoLower(file_name) == SplitextStem(file_name)

\* the join key of an image file: os.path.splitext(file_name)[0].lower()
FileKey(file_name) == Lower(SplitextStem(file_name))

\* file_name.endswith(".png") or file_name.endswith(".jpg")
IsImageFile(file_name) ==
  \/ EndsWith(file_name, <<".", "p", "n", "g">>)
  \/ EndsWith(file_name, <<".", "j", "p", "g">>)

(***************************************************************************)
(* Cell values.  A spreadsheet cell read by pandas is a number; a value    *)
(* returned by st.text_input is a str.  A value is [t, s]: its type tag    *)
(* and its decimal/text rendering.                                         *)
(***************************************************************************)
IntCell(s) == [t |-> "int", s |-> s]
StrVal(s) == [t |-> "str", s |-> s]

\* str(v): what text_input makes of its value= argument
Str(v) == v.s

\* f"{v}": the rendering used in the drawn captions
Format(v) == v.s

(***************************************************************************)
(* read_prices                                                             *)
(***************************************************************************)
required_columns == <<"Nazva", "Lizhechko", "Myatnyk", "Shukhlyada">>

PriceFields == <<"Lizhechko", "Myatnyk", "Shukhlyada">>

\* [col for col in required_columns if col not in df.columns]
MissingColumns(sheet) ==
  SelectSeq(required_columns, LAMBDA col : col \notin sheet.columns)

\* the comprehension keeps the FIRST row of a key
DictPutFirstWins(acc, k, v) ==
  [x \in (DOMAIN acc) \cup {k} |-> IF x \in DOMAIN acc THEN acc[x] ELSE v]

\* one step of the dict comprehension: the row's entry replaces any earlier
\* entry of the same key
DictPut(acc, k, v) ==
  [x \in (DOMAIN acc) \cup {k} |-> IF x = k THEN v ELSE acc[x]]

RowEntry(row) ==
  [Lizhechko |-> row.Lizhechko, Myatnyk |-> row.Myatnyk,
   Shukhlyada |-> row.Shukhlyada]

\* {row["Nazva"]: {...} for _, row in df.iterrows()} after
\* df["Nazva"] = df["Nazva"].str.lower()
RECURSIVE DictFromRows(_, _, _)
DictFromRows(rows, i, acc) ==
  IF i > Len(rows) THEN acc
  ELSE DictFromRows(rows, i + 1,
                    DictPut(acc, Lower(rows[i].Nazva), RowEntry(rows[i])))

EmptyTable == [k \in {} |-> 0]

\* read_prices(file) on the sheet the file holds: either raises ValueError
\* (naming the missing columns) or returns the table
read_prices(sheet) ==
  IF MissingColumns(sheet) # <<>>
  THEN [raised |-> TRUE, missing |-> MissingColumns(sheet)]
  ELSE [raised |-> FALSE, table |-> DictFromRows(sheet.rows, 1, EmptyTable)]

(***************************************************************************)
(* Images.  An image is its size, the pixels it was opened with (base: a   *)
(* pattern number) and the list of draw operations applied to it since;    *)
(* PixelAt gives its pixels.  Pixels are RGBA.                             *)
(***************************************************************************)
FONT_SIZE == 65
overlay_height == 350
line_spacing == 30

WHITE == <<255, 255, 255, 255>>
BLACK == <<0, 0, 0, 255>>

\* the pixel of a freshly opened image (Image.open(...).convert("RGBA"))
BasePixel(base, x, y) ==
  LET v == 60 * ((x + 2 * y + base) % 3) + 20
  IN  <<v, 200 - v, v, IF base % 2 = 0 THEN 255 ELSE 128>>

\* try: ImageFont.truetype(FONT_PATH, FONT_SIZE)
\* except OSError: ImageFont.load_default()
LoadFont(fontLoadable) == IF fontLoadable THEN "truetype" ELSE "default"

\* glyph cell of the built-in fallback font
DefaultCharW == 6
DefaultCharH == 11

\* advance width / line height of one character in a font
CharW(font) == IF font = "truetype" THEN (FONT_SIZE * 3) \div 5 ELSE DefaultCharW
CharH(font) == IF font = "truetype" THEN FONT_SIZE ELSE DefaultCharH

\* text_bbox[2] - text_bbox[0] of draw.textbbox((0, 0), text, font=font)
TextWidth(text, font) == Len(text) * CharW(font)

\* draw.rectangle([(x0, y0), (x1, y1)], fill): both corners inclusive
Rectangle(x0, y0, x1, y1, fill) ==
  [kind |-> "rect", x0 |-> x0, y0 |-> y0, x1 |-> x1, y1 |-> y1, fill |-> fill]

\* draw_centered_text(text, y_position)
draw_centered_text(width, font, text, y_position) ==
  LET text_width == TextWidth(text, font)
      x_position == (width - text_width) \div 2
  IN  [kind |-> "text", x |-> x_position, y |-> y_position, text |-> text,
       font |-> font, fill |-> BLACK]

\* how much of pixel (px, py) a text operation inks: 0 none, 1 an
\* anti-aliased edge (blended with what is under it), 2 solid.  The
\* fallback bitmap font has no anti-aliasing.
Coverage(op, px, py) ==
  LET dx == px - op.x
      dy == py - op.y
      tw == TextWidth(op.text, op.font)
      th == CharH(op.font)
  IN  IF dx < 0 \/ dx >= tw \/ dy < 0 \/ dy >= th THEN 0
      ELSE IF op.font = "truetype"
              /\ (dx = 0 \/ dx = tw - 1 \/ dy = 0 \/ dy = th - 1) THEN 1
      ELSE 2

Blend(ink, under, cov) ==
  CASE cov = 0 -> under
    [] cov = 1 -> [i \in 1..4 |-> (ink[i] + under[i]) \div 2]
    [] OTHER -> ink

\* one draw operation on one pixel
DrawOn(op, p, x, y) ==
  IF op.kind = "rect"
  THEN IF op.x0 <= x /\ x <= op.x1 /\ op.y0 <= y /\ y <= op.y1
       THEN op.fill ELSE p
  ELSE Blend(op.fill, p, Coverage(op, x, y))

RECURSIVE ApplyOps(_, _, _, _, _)
ApplyOps(p, ops, i, x, y) ==
  IF i > Len(ops) THEN p
  ELSE ApplyOps(DrawOn(ops[i], p, x, y), ops, i + 1, x, y)

\* the pixel (x, y) of an image, 0 <= x < width, 0 <= y < height
PixelAt(image, x, y) == ApplyOps(BasePixel(image.base, x, y), image.ops, 1, x, y)

OpenImage(width, height, base) ==
  [width |-> width, height |-> height, base |-> base, ops |-> <<>>]

(***************************************************************************)
(* add_price_with_centered_text                                            *)
(***************************************************************************)
\* the three captions, in drawing order
Caption1(price_data) == "Lizhechko: " \o Format(price_data.Lizhechko) \o " hrn"
Caption2(price_data) == "Z mayatnykom: " \o Format(price_data.Myatnyk) \o " hrn"
Caption3(price_data) == "Z shukhlyadoyu: " \o Format(price_data.Shukhlyada) \o " hrn"

\* a band that starts one row too high
BandRectOneRowUp(width, height) ==
  Rectangle(0, height - overlay_height - 1, width, height, WHITE)

\* a band that starts below the first caption
BandRectShort(width, height) ==
  Rectangle(0, height - overlay_height + 100, width, height, WHITE)

\* the band: draw.rectangle([(0, height - overlay_height), (width, height)], ...)
BandRect(width, height) ==
  Rectangle(0, height - overlay_height, width, height, WHITE)

\* the draw calls made when the key is in the table
DrawCalls(width, height, price_data, font) ==
  LET y_offset == height - overlay_height + 30
  IN  << BandRect(width, height),
         draw_centered_text(width, font, Caption1(price_data), y_offset),
         draw_centered_text(width, font, Caption2(price_data),
                            y_offset + 65 + line_spacing),
         draw_centered_text(width, font, Caption3(price_data),
                            y_offset + 130 + line_spacing * 2) >>

\* the band is drawn before the lookup
add_price_band_first(image, prices, file_name, fontLoadable) ==
  LET file_key == FileKey(file_name)
      banded == [image EXCEPT !.ops = @ \o <<BandRect(image.width, image.height)>>]
  IN  IF file_key \in DOMAIN prices
      THEN [image EXCEPT !.ops = @ \o DrawCalls(image.width, image.height,
                                               prices[file_key],
                                               LoadFont(fontLoadable))]
      ELSE banded

add_price_with_centered_text(image, prices, file_name, fontLoadable) ==
  LET file_key == FileKey(file_name)
  IN  IF file_key \in DOMAIN prices
      THEN [image EXCEPT !.ops = @ \o DrawCalls(image.width, image.height,
                                               prices[file_key],
                                               LoadFont(fontLoadable))]
      ELSE image

(***************************************************************************)
(* The environment of a session: the image folder, the spreadsheets.       *)
(***************************************************************************)
F_Apng == <<"A", ".", "p", "n", "g">>
F_ajpg == <<"a", ".", "j", "p", "g">>
F_bpng == <<"b", ".", "p", "n", "g">>
F_cpng == <<"c", ".", "p", "n", "g">>
F_txt == <<"n", ".", "t", "x", "t">>

\* what os.listdir(IMAGE_FOLDER) may return
Folders ==
  { <<F_Apng, F_txt, F_bpng>>,
    <<F_ajpg, F_Apng>>,
    <<F_bpng, F_cpng>>,
    <<F_txt>> }

\* Image.open(os.path.join(IMAGE_FOLDER, file_name)).convert("RGBA")
DiskImage(file_name) ==
  CASE file_name = F_Apng -> OpenImage(2, 400, 0)
    [] file_name = F_ajpg -> OpenImage(3, 351, 1)
    [] file_name = F_bpng -> OpenImage(2, 300, 2)
    [] OTHER -> OpenImage(1, 360, 1)

Row(name, p1, p2, p3) ==
  [Nazva |-> name, Lizhechko |-> IntCell(p1), Myatnyk |-> IntCell(p2),
   Shukhlyada |-> IntCell(p3)]

AllColumns == {required_columns[i] : i \in 1..Len(required_columns)}

S_ok == [columns |-> AllColumns,
         rows |-> << Row(<<"A">>, "1000", "1200", "1500"),
                     Row(<<"b">>, "2000", "2200", "2500") >>]
S_other == [columns |-> AllColumns \cup {"Extra"},
            rows |-> << Row(<<"a">>, "1", "2", "3"),
                        Row(<<"B">>, "4", "5", "6"),
                        Row(<<"A">>, "1100", "1200", "1500") >>]
S_bad == [columns |-> AllColumns \ {"Myatnyk"},
          rows |-> << [Nazva |-> <<"a">>, Lizhechko |-> IntCell("9"),
                       Shukhlyada |-> IntCell("9")] >>]

\* the file at DEFAULT_PRICE_FILE
DefaultSheets == {S_ok, S_bad}
\* files the user may upload
UploadSheets == {S_other, S_bad}

NoFile == [columns |-> {}, rows |-> <<>>, none |-> TRUE]

\* values the user types into a price field
EditValues == {"7", "8"}

(***************************************************************************)
(* State.                                                                  *)
(***************************************************************************)
VARIABLES
  \* environment of the session
  folder,          \* os.listdir(IMAGE_FOLDER)
  defaultSheet,    \* the content of DEFAULT_PRICE_FILE
  fontLoadable,    \* whether FONT_PATH can be loaded
  \* widgets
  use_default,     \* the "use the default Excel file" checkbox
  uploaded,        \* the file held by the uploader, or NoFile
  widgets,         \* text_input widget state: widget id -> current text
  seen,            \* text_input widgets rendered by the current/last run
  \* st.session_state and st.cache_data
  prices,          \* st.session_state["prices"]
  readCache,       \* memo of read_prices: path -> table
  imgCache,        \* memo of process_image: (file_name, prices) -> image
  \* the script run
  pc,              \* "load", "render" or "idle" (waiting for the user)
  idx,             \* position in the folder listing (1-based)
  processed_files, \* file_name -> PNG bytes
  shown,           \* file_name -> image displayed by col.image
  zip,             \* the entries of the ZIP offered for download, or NoZip
  crashed,         \* the run ended with an uncaught exception
  runs,            \* number of user interactions so far
  \* history of the run, for the properties
  loadSheet,       \* the sheet the last load step read
  loadResult,      \* what read_prices gave to the last load step
  pricesBefore,    \* st.session_state["prices"] when the load step began
  cacheHit,        \* the last process_image call was served from the memo
  entered,         \* <<field, file_name>> -> text the user last typed there
  \* read_prices called on its own
  l_sheet, l_result,
  \* add_price_with_centered_text called on its own
  a_image, a_prices, a_given, a_file, a_font, a_out, a_same, a_again, a_pc

sessionVars ==
  <<folder, defaultSheet, fontLoadable, use_default, uploaded, widgets, seen,
    prices, readCache, imgCache, pc, idx, processed_files, shown, zip, crashed,
    runs, loadSheet, loadResult, pricesBefore, cacheHit, entered>>
loadVars == <<l_sheet, l_result>>
annotateVars ==
  <<a_image, a_prices, a_given, a_file, a_font, a_out, a_same, a_again, a_pc>>
vars == <<sessionVars, loadVars, annotateVars>>

Empty == [k \in {} |-> 0]
NoZip == [offered |-> FALSE, entries |-> <<>>]
NotCalled == [called |-> FALSE]

(***************************************************************************)
(* The script, lines 88-192, run once at start and after every             *)
(* interaction.                                                            *)
(***************************************************************************)
DEFAULT_PRICE_FILE == <<"default", 0>>

\* tempfile.NamedTemporaryFile(...).name: a fresh name on every run
TempFileName == <<"tmp", runs>>

\* @st.cache_data on read_prices: keyed by the path argument; a raised
\* exception is not memoized
CachedReadPrices(cache, path, sheet) ==
  IF path \in DOMAIN cache
  THEN [raised |-> FALSE, table |-> cache[path]]
  ELSE read_prices(sheet)

\* on ValueError the session table becomes empty
PricesAfterLoadReset(result, old) ==
  IF result.raised THEN EmptyTable ELSE result.table

\* try: st.session_state["prices"] = read_prices(price_file_path)
\* except ValueError as e: st.error(...)
PricesAfterLoad(result, old) ==
  IF result.raised THEN old ELSE result.table

\* the script start and the load step, lines 98-129
LoadStep ==
  /\ pc = "load"
  /\ LET upload == ~use_default /\ uploaded # NoFile
         hasPath == use_default \/ upload
         path == IF use_default THEN DEFAULT_PRICE_FILE ELSE TempFileName
         sheet == IF use_default THEN defaultSheet ELSE uploaded
         \* st.cache_data.clear() empties both memos
         rc == IF upload THEN Empty ELSE readCache
         ic == IF upload THEN Empty ELSE imgCache
         result == CachedReadPrices(rc, path, sheet)
     IN  /\ uploaded' = IF use_default THEN NoFile ELSE uploaded
         /\ imgCache' = ic
         /\ pricesBefore' = prices
         /\ IF hasPath
            THEN /\ readCache' = IF result.raised THEN rc
                                 ELSE (path :> result.table) @@ rc
                 /\ prices' = PricesAfterLoad(result, prices)
                 /\ loadSheet' = sheet
                 /\ loadResult' = result
                 /\ pc' = "render"
                 /\ UNCHANGED widgets
            ELSE \* nothing below line 124 runs; the run ends here
                 /\ readCache' = rc
                 /\ loadSheet' = NoFile
                 /\ loadResult' = NotCalled
                 /\ pc' = "idle"
                 /\ widgets' = Empty
                 /\ UNCHANGED prices
  /\ idx' = 1
  /\ seen' = {}
  /\ processed_files' = Empty
  /\ shown' = Empty
  /\ zip' = NoZip
  /\ crashed' = FALSE
  /\ cacheHit' = FALSE
  /\ UNCHANGED <<folder, defaultSheet, fontLoadable, use_default, runs, entered>>

FieldSet == {PriceFields[i] : i \in 1..Len(PriceFields)}

\* identity of a text_input without key=: its label (field and file name)
\* and its default value
WidgetId(field, file_name, value) == <<field, file_name, Str(value)>>

\* st.text_input(label, value=...): the widget's text if the widget
\* exists already, else the default
text_input(state, id) == IF id \in DOMAIN state THEN state[id] ELSE id[3]

\* memo key of process_image: the file name alone
ProcessImageKeyNameOnly(file_name, table) == <<file_name, EmptyTable>>

\* memo key of process_image: both arguments, hashed by value
ProcessImageKey(file_name, table) == <<file_name, table>>

\* io.BytesIO(); processed_image.save(buf, format="PNG"); buf.getvalue()
PNG(image) == [format |-> "PNG", image |-> image]

CurrentFile == folder[idx]

\* line 141 false: not an image file
RenderSkip ==
  /\ pc = "render" /\ idx <= Len(folder)
  /\ ~IsImageFile(CurrentFile)
  /\ idx' = idx + 1
  /\ UNCHANGED <<folder, defaultSheet, fontLoadable, use_default, uploaded,
                 widgets, seen, prices, readCache, imgCache, pc,
                 processed_files, shown, zip, crashed, runs, loadSheet,
                 loadResult, pricesBefore, cacheHit, entered>>

\* line 148: prices[file_key] raises KeyError; the script run ends
RenderKeyError ==
  /\ pc = "render" /\ idx <= Len(folder)
  /\ IsImageFile(CurrentFile)
  /\ FileKey(CurrentFile) \notin DOMAIN prices
  /\ crashed' = TRUE
  /\ pc' = "idle"
  /\ UNCHANGED <<folder, defaultSheet, fontLoadable, use_default, uploaded,
                 widgets, seen, prices, readCache, imgCache, idx,
                 processed_files, shown, zip, runs, loadSheet,
                 loadResult, pricesBefore, cacheHit, entered>>

\* lines 142-176 for one image with a row in the table
RenderImage ==
  /\ pc = "render" /\ idx <= Len(folder)
  /\ IsImageFile(CurrentFile)
  /\ FileKey(CurrentFile) \in DOMAIN prices
  /\ LET file_name == CurrentFile
         file_key == FileKey(file_name)
         row == prices[file_key]
         id == [f \in FieldSet |-> WidgetId(f, file_name, row[f])]
         newRow == [f \in FieldSet |-> StrVal(text_input(widgets, id[f]))]
         newPrices == [prices EXCEPT ![file_key] = newRow]
         key == ProcessImageKey(file_name, newPrices)
         hit == key \in DOMAIN imgCache
         processed_image ==
           IF hit THEN imgCache[key]
           ELSE add_price_with_centered_text(DiskImage(file_name), newPrices,
                                             file_name, fontLoadable)
     IN  /\ prices' = newPrices
         /\ widgets' = [w \in (DOMAIN widgets) \cup {id[f] : f \in FieldSet} |->
                          IF w \in DOMAIN widgets THEN widgets[w] ELSE w[3]]
         /\ seen' = seen \cup {id[f] : f \in FieldSet}
         /\ imgCache' = IF hit THEN imgCache
                        ELSE (key :> processed_image) @@ imgCache
         /\ cacheHit' = hit
         /\ processed_files' = (file_name :> PNG(processed_image)) @@ processed_files
         /\ shown' = (file_name :> processed_image) @@ shown
  /\ idx' = idx + 1
  /\ UNCHANGED <<folder, defaultSheet, fontLoadable, use_default, uploaded,
                 readCache, pc, zip, crashed, runs, loadSheet, loadResult,
                 pricesBefore, entered>>

\* the image files of the listing, in listing order
ImageFiles == SelectSeq(folder, IsImageFile)

\* lines 178-192, then the end of the run: widgets that were not rendered
\* lose their state
ZipStep ==
  /\ pc = "render" /\ idx > Len(folder)
  /\ zip' = IF DOMAIN processed_files # {}
            THEN [offered |-> TRUE,
                  entries |-> [i \in 1..Len(ImageFiles) |->
                                 [name |-> ImageFiles[i],
                                  data |-> processed_files[ImageFiles[i]]]]]
            ELSE NoZip
  /\ widgets' = [w \in (DOMAIN widgets) \cap seen |-> widgets[w]]
  /\ pc' = "idle"
  /\ UNCHANGED <<folder, defaultSheet, fontLoadable, use_default, uploaded,
                 seen, prices, readCache, imgCache, idx, processed_files,
                 shown, crashed, runs, loadSheet, loadResult, pricesBefore,
                 cacheHit, entered>>

(***************************************************************************)
(* User interactions; each one re-runs the script.                         *)
(***************************************************************************)
Interact ==
  /\ pc = "idle" /\ runs < MaxRuns
  /\ runs' = runs + 1
  /\ pc' = "load"
  /\ UNCHANGED <<folder, defaultSheet, fontLoadable, seen, prices, readCache,
                 imgCache, idx, processed_files, shown, zip, crashed,
                 loadSheet, loadResult, pricesBefore, cacheHit>>

\* the user types v into a displayed price field
EditField ==
  /\ \E id \in (DOMAIN widgets) \cap seen : \E v \in EditValues :
       /\ v # widgets[id]
       /\ widgets' = [widgets EXCEPT ![id] = v]
       /\ entered' = (<<id[1], id[2]>> :> v) @@ entered
  /\ Interact
  /\ UNCHANGED <<use_default, uploaded>>

\* the user flips the "use the default Excel file" checkbox
ToggleDefault ==
  /\ use_default' = ~use_default
  /\ entered' = Empty
  /\ Interact
  /\ UNCHANGED <<uploaded, widgets>>

\* the user uploads a spreadsheet
UploadFile ==
  /\ ~use_default
  /\ \E s \in UploadSheets : uploaded' = s
  /\ entered' = Empty
  /\ Interact
  /\ UNCHANGED <<use_default, widgets>>

\* the user flips the "mobile mode" checkbox: a re-run with nothing changed
\* but the column count
ToggleMobile ==
  /\ Interact
  /\ UNCHANGED <<use_default, uploaded, widgets, entered>>

InitSession ==
  /\ folder \in Folders
  /\ defaultSheet \in DefaultSheets
  /\ fontLoadable \in BOOLEAN
  /\ use_default = TRUE
  /\ uploaded = NoFile
  /\ widgets = Empty
  /\ seen = {}
  /\ prices = EmptyTable
  /\ readCache = Empty
  /\ imgCache = Empty
  /\ pc = "load"
  /\ idx = 1
  /\ processed_files = Empty
  /\ shown = Empty
  /\ zip = NoZip
  /\ crashed = FALSE
  /\ runs = 0
  /\ loadSheet = NoFile
  /\ loadResult = NotCalled
  /\ pricesBefore = EmptyTable
  /\ cacheHit = FALSE
  /\ entered = Empty

IdleLoad == l_sheet = NoFile /\ l_result = NotCalled
IdleAnnotate ==
  /\ a_image = OpenImage(1, 1, 0) /\ a_prices = EmptyTable
  /\ a_given = EmptyTable /\ a_file = F_txt
  /\ a_font = FALSE /\ a_out = NotCalled /\ a_same = NotCalled
  /\ a_again = NotCalled /\ a_pc = "off"

Init == InitSession /\ IdleLoad /\ IdleAnnotate

Next ==
  \/ LoadStep /\ UNCHANGED <<loadVars, annotateVars>>
  \/ RenderSkip /\ UNCHANGED <<loadVars, annotateVars>>
  \/ RenderKeyError /\ UNCHANGED <<loadVars, annotateVars>>
  \/ RenderImage /\ UNCHANGED <<loadVars, annotateVars>>
  \/ ZipStep /\ UNCHANGED <<loadVars, annotateVars>>
  \/ EditField /\ UNCHANGED <<loadVars, annotateVars>>
  \/ ToggleDefault /\ UNCHANGED <<loadVars, annotateVars>>
  \/ UploadFile /\ UNCHANGED <<loadVars, annotateVars>>
  \/ ToggleMobile /\ UNCHANGED <<loadVars, annotateVars>>

Spec == Init /\ [][Next]_vars

(***************************************************************************)
(* Properties of a session.                                                *)
(***************************************************************************)
\* a load was attempted in the current/last run
LoadAttempted == loadResult # NotCalled

\* the state right after the load step of a run
JustLoaded == pc = "render" /\ idx = 1 /\ LoadAttempted

\* C2: a load of a spreadsheet that lacks a required column raises the
\* schema error, yields no mapping, and leaves st.session_state["prices"]
\* exactly as it was before the load, whatever loads came earlier.
C2_FailedLoadKeepsTable ==
  (JustLoaded /\ MissingColumns(loadSheet) # <<>>) =>
     /\ loadResult.raised
     /\ "table" \notin DOMAIN loadResult
     /\ prices = pricesBefore

\* C2 witness: a failed load that follows a successful one
C2_Witness ==
  /\ JustLoaded
  /\ MissingColumns(loadSheet) # <<>>
  /\ pricesBefore # EmptyTable

\* the run has ended after attempting a load
PassEnded == pc = "idle" /\ LoadAttempted

\* C5: in a render pass an image file with no row in the table is not an
\* error: the pass does not fail, every listed image is processed, and the
\* unmatched image is shown as it is on disk.
C5_LookupMissPassesThrough ==
  PassEnded =>
     /\ ~crashed
     /\ \A i \in 1..Len(ImageFiles) :
          /\ ImageFiles[i] \in DOMAIN shown
          /\ FileKey(ImageFiles[i]) \notin DOMAIN prices
               => shown[ImageFiles[i]] = DiskImage(ImageFiles[i])

\* C6: a pass over a folder of N >= 1 image files offers a ZIP with exactly
\* N entries, one per image file, named after it, each holding the PNG of
\* that image's output.
C6_ZipHasEveryImage ==
  (PassEnded /\ Len(ImageFiles) >= 1) =>
     /\ zip.offered
     /\ Len(zip.entries) = Len(ImageFiles)
     /\ \A i \in 1..Len(ImageFiles) :
          /\ zip.entries[i].name = ImageFiles[i]
          /\ zip.entries[i].data = PNG(shown[ImageFiles[i]])
     /\ \A i, j \in 1..Len(zip.entries) :
          zip.entries[i].name = zip.entries[j].name => i = j

\* process_image has just returned for the image before position idx
JustRendered ==
  /\ pc = "render" /\ idx > 1
  /\ IsImageFile(folder[idx - 1])
  /\ folder[idx - 1] \in DOMAIN shown

\* C8: the image process_image returns, memoized or not, is the one
\* computed from the table as it is at the call.
C8_MemoServesCurrentPrices ==
  JustRendered =>
     shown[folder[idx - 1]] =
       add_price_with_centered_text(DiskImage(folder[idx - 1]), prices,
                                    folder[idx - 1], fontLoadable)

\* C8 witness: a call served from the memo while the memo also holds a
\* rendering of the same image under other prices
C8_Witness ==
  /\ JustRendered
  /\ cacheHit
  /\ \E k \in DOMAIN imgCache : k[1] = folder[idx - 1] /\ k[2] # prices

\* the caption drawn for a field holding text s
CaptionFor(field, s) ==
  CASE field = "Lizhechko" -> "Lizhechko: " \o s \o " hrn"
    [] field = "Myatnyk" -> "Z mayatnykom: " \o s \o " hrn"
    [] OTHER -> "Z shukhlyadoyu: " \o s \o " hrn"

FieldLine(field) == CHOOSE n \in 1..Len(PriceFields) : PriceFields[n] = field

\* the text of the n-th line drawn on an annotated disk image
DrawnLine(image, n) == image.ops[1 + n].text

\* C9: with the same spreadsheet in effect, the text the user last typed
\* into a field is, after every later completed pass, the value in
\* st.session_state["prices"] for that image and the value drawn on it.
C9_EditsPersist ==
  (PassEnded /\ ~crashed) =>
     \A w \in DOMAIN entered :
        /\ prices[FileKey(w[2])][w[1]] = StrVal(entered[w])
        /\ DrawnLine(shown[w[2]], FieldLine(w[1])) = CaptionFor(w[1], entered[w])

\* the same statement on folders where no two images share a stem
C9_UniqueStems ==
  (\A i, j \in 1..Len(ImageFiles) :
      FileKey(ImageFiles[i]) = FileKey(ImageFiles[j]) => i = j)
  => C9_EditsPersist

(***************************************************************************)
(* read_prices on its own: every spreadsheet of at most MaxRows rows over  *)
(* a few names and prices, with and without the required columns.          *)
(***************************************************************************)
LoadNames == { <<"a">>, <<"A">>, <<"b">>, <<"a", " ">> }
LoadPrices == { <<"1000", "1200", "1500">>, <<"1", "2", "3">> }
LoadColumnSets ==
  { AllColumns, AllColumns \cup {"Extra"}, AllColumns \ {"Myatnyk"},
    {"Nazva", "Extra"} }

\* a row of a sheet with the given columns
RowOver(name, p, columns) ==
  LET full == [c \in AllColumns \cup {"Extra"} |->
                 CASE c = "Nazva" -> name
                   [] c = "Lizhechko" -> IntCell(p[1])
                   [] c = "Myatnyk" -> IntCell(p[2])
                   [] c = "Shukhlyada" -> IntCell(p[3])
                   [] OTHER -> IntCell("0")]
  IN  [c \in columns |-> full[c]]

LoadSheets ==
  UNION { { [columns |-> cols, rows |-> rows] :
              rows \in UNION { [1..n -> {RowOver(name, p, cols) :
                                           name \in LoadNames, p \in LoadPrices}] :
                               n \in 0..MaxRows } } :
          cols \in LoadColumnSets }

InitLoad == l_sheet \in LoadSheets /\ l_result = NotCalled

CallReadPrices ==
  /\ l_result = NotCalled
  /\ l_result' = read_prices(l_sheet)
  /\ UNCHANGED l_sheet

IdleSession ==
  /\ folder = <<>> /\ defaultSheet = NoFile /\ fontLoadable = FALSE
  /\ use_default = TRUE /\ uploaded = NoFile /\ widgets = Empty /\ seen = {}
  /\ prices = EmptyTable /\ readCache = Empty /\ imgCache = Empty
  /\ pc = "off" /\ idx = 1 /\ processed_files = Empty /\ shown = Empty
  /\ zip = NoZip /\ crashed = FALSE /\ runs = 0 /\ loadSheet = NoFile
  /\ loadResult = NotCalled /\ pricesBefore = EmptyTable /\ cacheHit = FALSE
  /\ entered = Empty

InitLoadAlone == InitLoad /\ IdleSession /\ IdleAnnotate

NextLoad == CallReadPrices /\ UNCHANGED <<sessionVars, annotateVars>>

SpecLoad == InitLoadAlone /\ [][NextLoad]_vars

HasRequiredColumns(sheet) == \A i \in 1..Len(required_columns) :
                               required_columns[i] \in sheet.columns

\* the lower-cased key of row i
RowKey(sheet, i) == Lower(sheet.rows[i].Nazva)

\* the last row whose lower-cased key is k
LastRowOf(sheet, k) ==
  CHOOSE i \in 1..Len(sheet.rows) :
    /\ RowKey(sheet, i) = k
    /\ \A j \in (i + 1)..Len(sheet.rows) : RowKey(sheet, j) # k

\* C1: on a spreadsheet with the four required columns read_prices returns
\* a mapping whose keys are exactly the distinct lower-cased product keys
\* of the rows, each key carrying the three price fields of the LAST row
\* with that lower-cased key; zero rows give the empty mapping.
C1_LoadLastRowWins ==
  (l_result # NotCalled /\ HasRequiredColumns(l_sheet)) =>
     /\ ~l_result.raised
     /\ DOMAIN l_result.table =
          {RowKey(l_sheet, i) : i \in 1..Len(l_sheet.rows)}
     /\ \A k \in DOMAIN l_result.table :
          LET r == l_sheet.rows[LastRowOf(l_sheet, k)]
          IN  /\ l_result.table[k].Lizhechko = r.Lizhechko
              /\ l_result.table[k].Myatnyk = r.Myatnyk
              /\ l_result.table[k].Shukhlyada = r.Shukhlyada

\* C1 witness: a loaded sheet in which two rows with different prices have
\* keys that differ only in letter case
C1_Witness ==
  /\ l_result # NotCalled
  /\ HasRequiredColumns(l_sheet)
  /\ \E i, j \in 1..Len(l_sheet.rows) :
       /\ i < j
       /\ l_sheet.rows[i].Nazva # l_sheet.rows[j].Nazva
       /\ RowKey(l_sheet, i) = RowKey(l_sheet, j)
       /\ l_sheet.rows[i].Lizhechko # l_sheet.rows[j].Lizhechko

(***************************************************************************)
(* add_price_with_centered_text on its own: images of several sizes        *)
(* around the band height, tables as read_prices and the edit fields       *)
(* leave them, file names that do and do not join.                         *)
(***************************************************************************)
F_aSpacePng == <<"a", " ", ".", "p", "n", "g">>

S_space == [columns |-> AllColumns,
            rows |-> << Row(<<"A", " ">>, "10", "20", "30"),
                        Row(<<"B">>, "40", "50", "60") >>]

T_ok == read_prices(S_ok).table
T_edited == [T_ok EXCEPT ![<<"a">>].Lizhechko = StrVal("7")]

AnnotateTables ==
  { EmptyTable, T_ok, T_edited, read_prices(S_other).table,
    read_prices(S_space).table }

AnnotateFiles == { F_Apng, F_ajpg, F_bpng, F_cpng, F_txt, F_aSpacePng }

\* <<width, height>>
SmallSizes == { <<1, 1>>, <<2, 349>>, <<2, 350>>, <<2, 351>>, <<3, 400>> }
\* wide enough for the fallback font's first caption to leave a margin
WideSize == <<100, 360>>

InitAnnotate ==
  /\ \/ /\ \E sz \in SmallSizes : \E b \in {0, 1} :
             a_image = OpenImage(sz[1], sz[2], b)
        /\ a_prices \in AnnotateTables
        /\ a_file \in AnnotateFiles
        /\ a_font \in BOOLEAN
     \/ /\ a_image = OpenImage(WideSize[1], WideSize[2], 0)
        /\ a_prices = T_ok
        /\ a_file \in {F_Apng, F_cpng}
        /\ a_font \in BOOLEAN
  /\ a_given = a_prices
  /\ a_out = NotCalled /\ a_same = NotCalled /\ a_again = NotCalled
  /\ a_pc = "in"

\* the first call
Annotate ==
  /\ a_pc = "in"
  /\ a_out' = add_price_with_centered_text(a_image, a_prices, a_file, a_font)
  /\ a_pc' = "once"
  /\ UNCHANGED <<a_image, a_prices, a_given, a_file, a_font, a_same, a_again>>

\* a second call on the same original inputs
AnnotateSame ==
  /\ a_pc = "once"
  /\ a_same' = add_price_with_centered_text(a_image, a_prices, a_file, a_font)
  /\ a_pc' = "twice"
  /\ UNCHANGED <<a_image, a_prices, a_given, a_file, a_font, a_out, a_again>>

\* a call on the output of the first call
ReAnnotate ==
  /\ a_pc = "twice"
  /\ a_again' = add_price_with_centered_text(a_out, a_prices, a_file, a_font)
  /\ a_pc' = "done"
  /\ UNCHANGED <<a_image, a_prices, a_given, a_file, a_font, a_out, a_same>>

NextAnnotate ==
  \/ Annotate /\ UNCHANGED <<sessionVars, loadVars>>
  \/ AnnotateSame /\ UNCHANGED <<sessionVars, loadVars>>
  \/ ReAnnotate /\ UNCHANGED <<sessionVars, loadVars>>

InitAnnotateAlone == InitAnnotate /\ IdleSession /\ IdleLoad

SpecAnnotate == InitAnnotateAlone /\ [][NextAnnotate]_vars

\* two images have the same size and the same pixels
PixelIdentical(i1, i2) ==
  /\ i1.width = i2.width /\ i1.height = i2.height
  /\ \A x \in 0..(i1.width - 1) : \A y \in 0..(i1.height - 1) :
       PixelAt(i1, x, y) = PixelAt(i2, x, y)

Annotated == a_pc \in {"once", "twice", "done"}

\* C3: when the lower-cased stem of the file name is not a key of the
\* table (the empty table included), the returned image is pixel-identical
\* to the input, no error is raised and the table is the table given.
C3_NoKeyNoChange ==
  (Annotated /\ Lower(SplitextStem(a_file)) \notin DOMAIN a_prices) =>
     /\ a_out # NotCalled
     /\ PixelIdentical(a_out, a_image)
     /\ a_prices = a_given

\* C3 witness: a call with a non-empty table that lacks the image's key
C3_Witness ==
  /\ Annotated
  /\ a_prices # EmptyTable
  /\ Lower(SplitextStem(a_file)) \notin DOMAIN a_prices
  /\ a_image.height > overlay_height

\* C4: every pixel in a row strictly above row height - 350 is left as it
\* was, for every size (heights below 350 included) and every table that
\* holds the image's key.
C4_AboveBandUntouched ==
  (Annotated /\ FileKey(a_file) \in DOMAIN a_prices) =>
     \A x \in 0..(a_image.width - 1) : \A y \in 0..(a_image.height - 1) :
        y < a_image.height - overlay_height =>
           PixelAt(a_out, x, y) = PixelAt(a_image, x, y)

\* C4 witness: an annotated image that has rows above the band, and whose
\* band rows did change
C4_Witness ==
  /\ Annotated
  /\ FileKey(a_file) \in DOMAIN a_prices
  /\ a_image.height > overlay_height
  /\ PixelAt(a_out, 0, a_image.height - overlay_height) # 
       PixelAt(a_image, 0, a_image.height - overlay_height)

\* the draw operations the call added to the image
Added == SubSeq(a_out.ops, Len(a_image.ops) + 1, Len(a_out.ops))

\* C7: the image joins the row whose key equals its file-name stem
\* lower-cased, nothing trimmed; when it joins, exactly three lines are
\* drawn after the band, top to bottom: the base price, the first-accessory
\* price, the second-accessory price, each between its label and the
\* currency suffix; when it does not join, nothing is drawn.
C7_JoinAndThreeLines ==
  Annotated =>
     LET k == Lower(SplitextStem(a_file))
     IN  IF \E t \in DOMAIN a_prices : t = k
         THEN /\ Len(Added) = 4
              /\ Added[1].kind = "rect"
              /\ \A n \in 2..4 : Added[n].kind = "text"
              /\ Added[2].text = "Lizhechko: " \o a_prices[k].Lizhechko.s \o " hrn"
              /\ Added[3].text = "Z mayatnykom: " \o a_prices[k].Myatnyk.s \o " hrn"
              /\ Added[4].text = "Z shukhlyadoyu: " \o a_prices[k].Shukhlyada.s \o " hrn"
              /\ Added[2].y < Added[3].y /\ Added[3].y < Added[4].y
         ELSE Added = <<>>

\* C7 witness: file "A.png" joined to the row read from a sheet row named
\* "A", while a table keyed "a " is not joined by it
C7_Witness ==
  /\ Annotated
  /\ a_file = F_Apng
  /\ a_prices = T_ok
  /\ Len(Added) = 4

====
